---- MODULE Spec2Model ----
(***************************************************************************)
(* Shift Patient Care: the stream health probe (src/lib/videoProbe.ts),    *)
(* the incident list of the application (src/App.tsx) and the person       *)
(* detector loop of a video tile (src/components/VideoTile.tsx), each as   *)
(* a state machine with its own specification.                             *)
(*                                                                         *)
(* Times are in milliseconds.  Ratios are kept as integer fractions so     *)
(* that the comparisons of the code are exact.                             *)
(***************************************************************************)
EXTENDS Integers, Sequences, FiniteSets, TLC

VARIABLES
    now,               \* Date.now()
    \* ---- videoProbe.ts: one attachment of attachVideoProbe
    video,             \* the HTMLVideoElement: paused, ended, currentTime
    enablePixelProbe,  \* opts.enablePixelProbe
    ctx,               \* canvas.getContext("2d") returned a context
    listening,         \* event listeners registered and intervals armed
    disposed,
    health,            \* [state, reason] (sinceMs and details are not compared)
    lastTime,
    lastProgressAt,
    blackStreak,
    pixelDisabled,
    onHealthLast,      \* the last value handed to the onHealth callback
    onHealthCalled,    \* the last step called onHealth
    ran,               \* the handler of the probe that ran in the last step, with what
                       \* it met; <<"none">> when the last step was the browser's
    \* ---- App.tsx: the incident list
    incidents,         \* useState<Incident[]>: the active incidents, in list order
    nextId,            \* the number of newIncident calls so far (ids are unique)
    lastCall,          \* the last handler of the incident list that ran, with its arguments
    incidentsSorted,   \* useMemo(() => sortInbox(incidents)) of the last render
    safetyState,       \* useMemo(() => globalSafetyState(incidents)) of the last render
    resolved,          \* id, key and severity of the incidents resolve removed, each
                       \* with the id of the incident that had its (cameraId, type)
                       \* next, 0 while there was none
    \* ---- VideoTile.tsx: the person detector loops of the tiles
    aiBusy,            \* the module-level flag of withAiLock
    tileHealth,        \* per tile: health.state of the last render
    att,               \* per attachment (one run of the detector effect): its closure
    current,           \* per tile: the attachment of the last effect run
    ai,                \* per tile: the ai state (the reading last delivered by setAi)
    setAiCalls,        \* number of setAi calls, modulo 2
    lockRefused,       \* the attachment whose tick withAiLock turned away in the last
                       \* step of a detector loop, else 0
    \* ---- VideoTile.tsx: the fall heuristic of one tile
    trk,               \* the tracking variables of the current run of the detector effect
    fallRan,           \* the last step of the heuristic loop: whether it was a tick, and
                       \* what the tick met
    lastCriticalAt,    \* the time of the last critical reading of the tile, else Null
    fallHist,          \* risk: the current run delivered a risk reading and, since the
                       \* last one, no critical reading and no tick that detected no
                       \* person; moved: a sample since the stillness timer was started
                       \* was not little motion
    \* ---- VideoTile.tsx: the auto-emit effect of one tile
    lastAiEmitRef,     \* useRef({ riskMs: 0, criticalMs: 0 }).current
    forwarded,         \* the calls of onAutoIncident the tile made so far: severity and
                       \* time, oldest first
    still,             \* since when every ai state delivered to the tile showed a person
                       \* without motion, and when the last of them was delivered
    \* ---- sceneProbe.ts: one attachment of attachSceneProbe
    last,              \* the frame of the sample before, NoFrame for null
    pixelsOk,
    timer,             \* the interval of the sampler is armed
    onChangeLast,      \* the last value handed to the onChange callback
    sceneRan           \* the last step of the scene probe: what ran, on which frame, and
                       \* how often it called onChange

probeVars == <<video, enablePixelProbe, ctx, listening, disposed, health, lastTime,
               lastProgressAt, blackStreak, pixelDisabled, onHealthLast, onHealthCalled,
               ran>>

incVars == <<incidents, nextId, lastCall, incidentsSorted, safetyState, resolved>>

aiVars == <<aiBusy, tileHealth, att, current, ai, setAiCalls, lockRefused>>

fallVars == <<trk, fallRan, lastCriticalAt, fallHist>>

emitVars == <<lastAiEmitRef, forwarded, still>>

sceneVars == <<last, pixelsOk, timer, onChangeLast, sceneRan>>

vars == <<now, probeVars, incVars, aiVars, fallVars, emitVars, sceneVars>>

-----------------------------------------------------------------------------
(* Bounds of the model *)

MaxSeconds == 2      \* the probe is followed over MaxSeconds seconds
MaxPos == 1          \* playback positions are 0..MaxPos
MaxStreak == 3       \* the dark-sample streak is followed up to MaxStreak
frozenSeconds == 1   \* opts.frozenSeconds of the attachment under check
MaxClock == 1        \* the incident list is followed over the instants 0..MaxClock
MaxIds == 2          \* at most MaxIds incidents are created by newIncident
MaxAtt == 3          \* number of runs of the detector effect, over all tiles
MaxAiTicks == 1      \* the detector loops are followed over MaxAiTicks cooldown periods
MaxFallSeconds == 6  \* the fall heuristic is followed over MaxFallSeconds seconds
MaxEmitSteps == 6    \* the auto-emit effect is followed over MaxEmitSteps steps of 6 s
MaxSortLen == 3      \* sortInbox is applied to lists of up to MaxSortLen incidents

(* Program constants *)

PixelW == 96
PixelH == 54
blackRatioPercent == 92      \* blackRatioThreshold = 0.92
blackConsecutive == 2
SceneW == 96                 \* const w = 96 of the scene probe
SceneH == 54                 \* const h = 54
motionThreshold == 28
gridX == 6
gridY == 4
presenceMinPerMille == 4     \* presenceMin = 0.004
crowdMinCells == 7
MinCellThreshold == 5        \* Math.max(5, ...)
MaxGray == 255
CooldownMs == 12000          \* cooldownUntil = now + 12_000
DropPercent == 12            \* dyNorm > 0.12
DropWindowMs == 1400         \* dt < 1400
StillMs == 900               \* stillAge > 900
ExpiryMs == 4500             \* stillAge > 4500

PixelTotal == PixelW * PixelH

-----------------------------------------------------------------------------
(* videoProbe.ts *)

\* mediaErrorText with the cases of NETWORK and DECODE exchanged
mediaErrorTextSwapped(code) ==
    CASE code = 1 -> "ABORTED"
      [] code = 2 -> "DECODE"
      [] code = 3 -> "NETWORK"
      [] code = 4 -> "SRC_NOT_SUPPORTED"
      [] OTHER -> "UNKNOWN"

\* mediaErrorText; code 0 stands for a missing error object (code ?? 0)
mediaErrorText(code) ==
    CASE code = 1 -> "ABORTED"
      [] code = 2 -> "NETWORK"
      [] code = 3 -> "DECODE"
      [] code = 4 -> "SRC_NOT_SUPPORTED"
      [] OTHER -> "UNKNOWN"

MediaErrorCodes == 0..4

Health(state, reason) == [state |-> state, reason |-> reason]

\* ratio.toFixed(2) of blackCount / total, in hundredths
ToFixed2(blackCount) == (blackCount * 200 + PixelTotal) \div (2 * PixelTotal)

\* ratio >= blackRatioThreshold
RatioAtLeastThreshold(blackCount) == blackCount * 100 >= blackRatioPercent * PixelTotal

\* emit without the comparison with the last health
EmitDeliversAlways(next) == ~disposed

\* emit(next): the guard under which the callback runs
EmitDelivers(next) ==
    /\ ~disposed
    /\ ~(next.state = health.state /\ next.reason = health.reason)

\* emit(next) as a step: health, onHealth
emit(next) ==
    IF EmitDelivers(next)
    THEN /\ health' = next
         /\ onHealthLast' = next
         /\ onHealthCalled' = TRUE
    ELSE /\ UNCHANGED <<health, onHealthLast>>
         /\ onHealthCalled' = FALSE

NoEmit == UNCHANGED <<health, onHealthLast>> /\ onHealthCalled' = FALSE

ProbeRest == UNCHANGED <<now, video, enablePixelProbe, ctx, listening, disposed, incVars, aiVars,
                         fallVars, emitVars, sceneVars>>

EventRest == ProbeRest /\ UNCHANGED <<lastTime, lastProgressAt, blackStreak, pixelDisabled>>

\* the listeners of the video element; a listener runs only while registered
onWaiting ==
    /\ listening
    /\ ran' = <<"waiting">>
    /\ emit(Health("buffering", <<"waiting">>))
    /\ EventRest

onStalled ==
    /\ listening
    /\ ran' = <<"stalled">>
    /\ emit(Health("buffering", <<"stalled">>))
    /\ EventRest

onPlaying ==
    /\ listening
    /\ ran' = <<"playing">>
    /\ emit(Health("ok", <<"playing">>))
    /\ EventRest

onCanPlay ==
    /\ listening
    /\ ran' = <<"canplay">>
    /\ emit(Health("ok", <<"canplay">>))
    /\ EventRest

onError ==
    \E code \in MediaErrorCodes :
       /\ listening
       /\ ran' = <<"error", code>>
       /\ emit(Health("error", <<"media", mediaErrorText(code)>>))
       /\ EventRest

\* the watchdog comparing with > in place of >=
NoProgressStrictlyLonger == now - lastProgressAt > frozenSeconds * 1000

\* elapsed >= frozenSeconds * 1000, with elapsed = nowMs() - lastProgressAt
NoProgressTooLong == now - lastProgressAt >= frozenSeconds * 1000

\* a watchdog that restarts the no-progress clock while the video is paused
WatchdogSkipsAndRestartsClock ==
    /\ NoEmit
    /\ UNCHANGED lastTime
    /\ lastProgressAt' = now

\* `if (disposed) return; if (video.paused || video.ended) return;`
WatchdogSkips == NoEmit /\ UNCHANGED <<lastTime, lastProgressAt>>

\* the setInterval callback of the frozen watchdog (every 400 ms)
frozenTick ==
    /\ listening
    /\ ran' = <<"frozenTick">>
    /\ ProbeRest /\ UNCHANGED <<blackStreak, pixelDisabled>>
    /\ IF disposed \/ video.paused \/ video.ended
       THEN WatchdogSkips
       ELSE IF video.currentTime # lastTime
       THEN /\ lastTime' = video.currentTime
            /\ lastProgressAt' = now
            /\ IF health.state = "frozen"
               THEN emit(Health("ok", <<"time_progress">>))
               ELSE NoEmit
       ELSE /\ UNCHANGED <<lastTime, lastProgressAt>>
            /\ IF NoProgressTooLong
               THEN emit(Health("frozen", <<"no_time_progress", frozenSeconds>>))
               ELSE NoEmit

\* the frames the video shows, by the number of their pixels with luma <=
\* blackLumaThreshold in the 96x54 sample
BlackCounts == {0, 4769, 4770, PixelTotal}

\* the early returns of the pixel sampler without the test of the health
PixelSamplerRunsInAnyState ==
    ~(disposed \/ ~enablePixelProbe \/ pixelDisabled \/ ~ctx)

\* the early returns of the pixel sampler without the test of pixelDisabled
PixelSamplerRunsAfterThrow ==
    ~(disposed \/ ~enablePixelProbe \/ ~ctx \/ health.state # "ok")

\* blackStreak > blackConsecutive in place of >=
StreakReachedLate(streak) == streak > blackConsecutive

\* blackStreak === blackConsecutive in place of >=
StreakReachedExactly(streak) == streak = blackConsecutive

\* blackStreak >= blackConsecutive
StreakReached(streak) == streak >= blackConsecutive

\* the pixel sampler goes on to read the frame
PixelSamplerRuns ==
    ~(disposed \/ ~enablePixelProbe \/ pixelDisabled \/ ~ctx \/ health.state # "ok")

\* the setInterval callback of the pixel sampler (every sampleEveryMs), when the
\* video shows a frame with blackCount dark pixels; throws: reading it throws
pixelTick ==
    \E blackCount \in BlackCounts, throws \in BOOLEAN :
       /\ listening
       /\ throws => blackCount = 0
       /\ ran' = <<"pixelTick", blackCount, throws>>
       /\ ProbeRest /\ UNCHANGED <<lastTime, lastProgressAt>>
       /\ IF ~PixelSamplerRuns
          THEN NoEmit /\ UNCHANGED <<blackStreak, pixelDisabled>>
          ELSE IF throws
          THEN /\ pixelDisabled' = TRUE
               /\ NoEmit /\ UNCHANGED blackStreak
          ELSE /\ UNCHANGED pixelDisabled
               /\ IF RatioAtLeastThreshold(blackCount)
                  THEN /\ blackStreak < MaxStreak
                       /\ blackStreak' = blackStreak + 1
                       /\ IF StreakReached(blackStreak')
                          THEN emit(Health("black", <<"black_ratio", ToFixed2(blackCount)>>))
                          ELSE NoEmit
                  ELSE /\ blackStreak' = 0
                       /\ IF health.state = "black"
                          THEN emit(Health("ok", <<"black_recovered">>))
                          ELSE NoEmit

\* a detach that sets disposed and leaves the listeners and the intervals
detachKeepsListening ==
    /\ ~disposed
    /\ disposed' = TRUE
    /\ UNCHANGED listening
    /\ ran' = <<"detach">>
    /\ NoEmit
    /\ UNCHANGED <<now, video, enablePixelProbe, ctx, lastTime, lastProgressAt,
                   blackStreak, pixelDisabled, incVars, aiVars, fallVars, emitVars, sceneVars>>

\* the function attachVideoProbe returns
detach ==
    /\ ~disposed
    /\ disposed' = TRUE
    /\ listening' = FALSE
    /\ ran' = <<"detach">>
    /\ NoEmit
    /\ UNCHANGED <<now, video, enablePixelProbe, ctx, lastTime, lastProgressAt,
                   blackStreak, pixelDisabled, incVars, aiVars, fallVars, emitVars, sceneVars>>

\* the video element and the clock, driven by the browser
ProbeKeep ==
    /\ onHealthCalled' = FALSE
    /\ UNCHANGED <<enablePixelProbe, ctx, listening, disposed, health, lastTime,
                   lastProgressAt, blackStreak, pixelDisabled, onHealthLast,
                   incVars, aiVars, fallVars, emitVars, sceneVars>>

VideoPosition ==
    /\ \E t \in 0..MaxPos : t # video.currentTime /\ video' = [video EXCEPT !.currentTime = t]
    /\ ran' = <<"none">>
    /\ UNCHANGED now /\ ProbeKeep

VideoPaused ==
    /\ video' = [video EXCEPT !.paused = ~video.paused]
    /\ ran' = <<"none">>
    /\ UNCHANGED now /\ ProbeKeep

VideoEnded ==
    /\ video' = [video EXCEPT !.ended = ~video.ended]
    /\ ran' = <<"none">>
    /\ UNCHANGED now /\ ProbeKeep

TimePasses ==
    /\ now < MaxSeconds * 1000
    /\ now' = now + 1000
    /\ ran' = <<"none">>
    /\ UNCHANGED video /\ ProbeKeep

-----------------------------------------------------------------------------
(* lib/severity.ts, mock/incidents.ts, App.tsx: the incident list *)

Severities == {"watch", "risk", "critical"}      \* Incident["severity"]
IncidentTypes == {"FALL", "INACTIVITY"}
Cameras == {"cam-01", "webcam"}

severityRank(s) ==
    IF s = "critical" THEN 3
    ELSE IF s = "risk" THEN 2
    ELSE IF s = "watch" THEN 1
    ELSE 0

\* { ...a, ...b }: the keys of b override those of a
Spread(a, b) == b @@ a

\* newIncident returning an incident that is acknowledged
newIncidentAcknowledged(camera, type, severity, n, t) ==
    [id |-> n,
     cameraId |-> camera,
     cameraName |-> camera,
     type |-> type,
     severity |-> severity,
     confidence |-> IF severity = "watch" THEN 72 ELSE IF severity = "risk" THEN 88 ELSE 94,
     createdAt |-> t,
     acked |-> TRUE,
     frames |-> <<type, camera>>,
     hr |-> n]

\* newIncident(camera, type, severity), as its n-th call, at time t.  The id and
\* the heart-rate series are drawn at random: both are named by n.  The name of
\* a camera is named by its id, the three frames by the type and the camera
\* makeFrame draws them from.
newIncident(camera, type, severity, n, t) ==
    [id |-> n,
     cameraId |-> camera,
     cameraName |-> camera,
     type |-> type,
     severity |-> severity,
     confidence |-> IF severity = "watch" THEN 72 ELSE IF severity = "risk" THEN 88 ELSE 94,
     createdAt |-> t,
     acked |-> FALSE,
     frames |-> <<type, camera>>,
     hr |-> n]

\* prev.findIndex(p => p.cameraId === cameraId && p.type === type), 1-based, 0 for -1
FindIndex(prev, cameraId, type) ==
    LET hits == {i \in DOMAIN prev : prev[i].cameraId = cameraId /\ prev[i].type = type}
    IN IF hits = {} THEN 0 ELSE CHOOSE i \in hits : \A j \in hits : i <= j

\* upsertIncident without the lookup: every call prepends
upsertAlwaysPrepends(prev, next, t) == <<next>> \o prev

\* upsertIncident without the comparison of ranks: the incoming severity wins
upsertLastSeverityWins(prev, next, t) ==
    LET idx == FindIndex(prev, next.cameraId, next.type)
    IN IF idx > 0
       THEN [prev EXCEPT ![idx] = Spread(Spread(@, next), [acked |-> FALSE, createdAt |-> t])]
       ELSE <<next>> \o prev

\* upsertIncident without `acked: false`
upsertKeepsAcked(prev, next, t) ==
    LET idx == FindIndex(prev, next.cameraId, next.type)
    IN IF idx > 0
       THEN LET existing == prev[idx]
            IN [prev EXCEPT ![idx] =
                   Spread(Spread(existing, next),
                          [severity |-> IF severityRank(next.severity) > severityRank(existing.severity)
                                        THEN next.severity
                                        ELSE existing.severity,
                           createdAt |-> t])]
       ELSE <<next>> \o prev

\* upsertIncident putting the incident it merged at the head of the list
upsertMovesToHead(prev, next, t) ==
    LET idx == FindIndex(prev, next.cameraId, next.type)
    IN IF idx > 0
       THEN LET existing == prev[idx]
            IN <<Spread(Spread(existing, next),
                        [severity |-> IF severityRank(next.severity) > severityRank(existing.severity)
                                      THEN next.severity
                                      ELSE existing.severity,
                         acked |-> FALSE,
                         createdAt |-> t])>>
               \o SelectSeq(prev, LAMBDA p : p.id # existing.id)
       ELSE <<next>> \o prev

\* the state update of upsertIncident(next), run at time t
upsertIncident(prev, next, t) ==
    LET idx == FindIndex(prev, next.cameraId, next.type)
    IN IF idx > 0
       THEN LET existing == prev[idx]
            IN [prev EXCEPT ![idx] =
                   Spread(Spread(existing, next),
                          [severity |-> IF severityRank(next.severity) > severityRank(existing.severity)
                                        THEN next.severity
                                        ELSE existing.severity,
                           acked |-> FALSE,
                           createdAt |-> t])]
       ELSE <<next>> \o prev

\* ack(id) inverting the flag
ackToggles(prev, id) ==
    [i \in DOMAIN prev |->
        IF prev[i].id = id THEN Spread(prev[i], [acked |-> ~prev[i].acked]) ELSE prev[i]]

\* ack(id) without the test of the id: every incident is acknowledged
ackAll(prev, id) ==
    [i \in DOMAIN prev |-> Spread(prev[i], [acked |-> TRUE])]

\* the state update of ack(id)
ack(prev, id) ==
    [i \in DOMAIN prev |-> IF prev[i].id = id THEN Spread(prev[i], [acked |-> TRUE]) ELSE prev[i]]

\* the filter of resolve keeping the incidents that are not acknowledged
KeepsUnacked(p, id) == ~p.acked

KeepsOtherIds(p, id) == p.id # id

\* the state update of resolve(id)
resolve(prev, id) == SelectSeq(prev, LAMBDA p : KeepsOtherIds(p, id))

\* the reducer of globalSafetyState taking the severity of the last incident
globalSafetyStateOfLast(list) ==
    IF list = <<>> THEN "none" ELSE list[Len(list)].severity

\* globalSafetyState(incidents): incidents.reduce from "none", an incident
\* replacing the accumulator when its rank is higher
RECURSIVE globalSafetyState(_)
globalSafetyState(list) ==
    IF list = <<>>
    THEN "none"
    ELSE LET acc == globalSafetyState(SubSeq(list, 1, Len(list) - 1))
             it == list[Len(list)]
         IN IF severityRank(it.severity) > severityRank(acc) THEN it.severity ELSE acc

\* the comparator of sortInbox with the severity as first key
compareSeverityFirst(a, b) ==
    LET sr == severityRank(b.severity) - severityRank(a.severity)
    IN IF sr # 0 THEN sr
       ELSE IF a.acked # b.acked THEN (IF a.acked THEN 1 ELSE 0 - 1)
       ELSE b.createdAt - a.createdAt

\* the comparator of sortInbox
compareInbox(a, b) ==
    IF a.acked # b.acked
    THEN (IF a.acked THEN 1 ELSE 0 - 1)
    ELSE LET sr == severityRank(b.severity) - severityRank(a.severity)
         IN IF sr # 0 THEN sr ELSE b.createdAt - a.createdAt

\* Array.prototype.sort with compareInbox: the sort is stable, an element goes
\* behind the elements that do not compare greater than it
RECURSIVE InsertSorted(_, _)
InsertSorted(x, sorted) ==
    IF sorted = <<>> THEN <<x>>
    ELSE IF compareInbox(Head(sorted), x) > 0 THEN <<x>> \o sorted
    ELSE <<Head(sorted)>> \o InsertSorted(x, Tail(sorted))

RECURSIVE StableSort(_)
StableSort(list) ==
    IF list = <<>> THEN <<>>
    ELSE InsertSorted(list[Len(list)], StableSort(SubSeq(list, 1, Len(list) - 1)))

\* incidents.sort(...) on the argument itself: the argument is left sorted
sortInboxInPlace(list) == [arg |-> StableSort(list), result |-> StableSort(list)]

\* sortInbox(incidents) = [...incidents].sort(...): the argument as the call
\* leaves it, and the array returned
sortInbox(list) == [arg |-> list, result |-> StableSort(list)]

\* the record of the incidents removed, once the list `list` is set: the
\* incidents of the list before that are in `list` no more join it, and an
\* entry not replaced yet takes the id of the incident of `list` with its
\* (cameraId, type)
ResolvedAfter(list) ==
    LET gone == {[id |-> incidents[i].id, cameraId |-> incidents[i].cameraId,
                  type |-> incidents[i].type, severity |-> incidents[i].severity,
                  replacedBy |-> 0] :
                    i \in {k \in DOMAIN incidents :
                             \A j \in DOMAIN list : list[j].id # incidents[k].id}}
        Repl(r) == IF r.replacedBy = 0 /\ FindIndex(list, r.cameraId, r.type) > 0
                   THEN list[FindIndex(list, r.cameraId, r.type)].id
                   ELSE r.replacedBy
    IN {[r EXCEPT !.replacedBy = Repl(r)] : r \in resolved \cup gone}

\* setIncidents(list) and the render of App that follows it
SetIncidents(list) ==
    /\ resolved' = ResolvedAfter(list)
    /\ incidents' = sortInbox(list).arg
    /\ incidentsSorted' = sortInbox(list).result
    /\ safetyState' = globalSafetyState(sortInbox(list).arg)

\* a payload of onAutoIncident: confidence in percent, eventTimeSec <<>> for
\* undefined
Payload(camera, type, severity, confidence, reasons, eventTimeSec) ==
    [camera |-> camera, type |-> type, severity |-> severity, confidence |-> confidence,
     reasons |-> reasons, eventTimeSec |-> eventTimeSec]

\* the payloads the tiles of the model report: every severity with two different
\* pieces of evidence for one (camera, type), and one payload each for another
\* type on the same camera and for the same type on another camera
AutoPayloads ==
    {Payload("cam-01", "FALL", sev, 62, <<"drop:0.30">>, <<>>) : sev \in Severities}
    \cup {Payload("cam-01", "FALL", sev, 90, <<"still:1s">>, <<5>>) : sev \in Severities}
    \cup {Payload("cam-01", "INACTIVITY", "watch", 55, <<"low_motion">>, <<>>),
          Payload("webcam", "FALL", "risk", 70, <<"posture_flip">>, <<>>)}

NoPayload == Payload("none", "none", "none", 0, <<>>, <<>>)

\* a call of a handler of the incident list: op, the id given to ack or resolve
\* (else 0) and the payload given to onAutoIncident
Call(op, id, payload) == [op |-> op, id |-> id, payload |-> payload]

IncRest == UNCHANGED <<now, probeVars, aiVars, fallVars, emitVars, sceneVars>>

\* the state update of onAutoIncident(payload).  `incidents` in the handler is
\* the list of the render that made it: App renders after every setIncidents,
\* before the next report of the same camera, so the handler is taken to see
\* the current list.
AutoIncident(payload) ==
    LET idx == FindIndex(incidents, payload.camera, payload.type)
        given == [severity |-> payload.severity,
                  confidence |-> payload.confidence,
                  reasons |-> payload.reasons,
                  eventTimeSec |-> payload.eventTimeSec]
    IN IF idx > 0
       THEN /\ SetIncidents(upsertIncident(incidents, Spread(incidents[idx], given), now))
            /\ UNCHANGED nextId
       ELSE /\ nextId < MaxIds
            /\ nextId' = nextId + 1
            /\ SetIncidents(
                  upsertIncident(incidents,
                     Spread(newIncident(payload.camera, payload.type, payload.severity,
                                        nextId + 1, now),
                            [confidence |-> payload.confidence,
                             reasons |-> payload.reasons,
                             eventTimeSec |-> payload.eventTimeSec]),
                     now))

\* onAutoIncident(payload), the prop App gives every tile
onAutoIncident ==
    \E payload \in AutoPayloads :
       /\ AutoIncident(payload)
       /\ lastCall' = Call("onAutoIncident", 0, payload)
       /\ IncRest

\* onAck of the drawer and of the focus modal
Ack ==
    /\ \E id \in 1..MaxIds :
          /\ SetIncidents(ack(incidents, id))
          /\ lastCall' = Call("ack", id, NoPayload)
    /\ UNCHANGED nextId /\ IncRest

\* onResolve of the drawer and of the focus modal
Resolve ==
    /\ \E id \in 1..MaxIds :
          /\ SetIncidents(resolve(incidents, id))
          /\ lastCall' = Call("resolve", id, NoPayload)
    /\ UNCHANGED nextId /\ IncRest

ClockTick ==
    /\ now < MaxClock
    /\ now' = now + 1
    /\ UNCHANGED <<probeVars, incVars, aiVars, fallVars, emitVars, sceneVars>>

-----------------------------------------------------------------------------
(* components/VideoTile.tsx: the detector loop *)

Tiles == Cameras

AttIds == 1..MaxAtt

TileHealthStates == {"ok", "buffering"}       \* the values of health.state the model takes

\* the tiles whose stream changes its health; the stream of the webcam stays ok
UnsteadyTiles == {"cam-01"}

\* an attachment slot no effect run has taken yet
Unused == [tile |-> "none", stopped |-> FALSE, health |-> "ok", pc |-> "unused",
           cooldownUntil |-> 0]

\* the closure of one effect run: `stopped`, the health.state it captured, where
\* its tick chain stands (pc) and cooldownUntil.
\*   pc: "timer"  setTimeout(tick) is pending
\*       "model"  tick awaits getCocoModel()
\*       "infer"  tick is inside withAiLock, awaiting model.detect
\*       "done"   tick returned at `if (stopped) return`
\*       "dead"   tick's promise was rejected
\* Nothing reads the closure of a chain that is over: it is kept as Over(..).
Attachment(t, h) == [tile |-> t, stopped |-> FALSE, health |-> h, pc |-> "timer",
                     cooldownUntil |-> 0]

Over(r, pc) == [tile |-> r.tile, stopped |-> r.stopped,
               health |-> IF r.stopped THEN "ok" ELSE r.health, pc |-> pc,
               cooldownUntil |-> 0]

Reading(ready, fall, reasons) == [ready |-> ready, fall |-> fall, reasons |-> reasons]

\* what the fall heuristic of a tick yields
FallOutcomes ==
    {[fall |-> "none", reasons |-> <<>>],
     [fall |-> "risk", reasons |-> <<"drop">>],
     [fall |-> "critical", reasons |-> <<"still">>]}

\* setAi(r) called by the tick of attachment a
setAi(a, A, r) ==
    /\ ai' = [ai EXCEPT ![A[a].tile] = r]
    /\ setAiCalls' = 1 - setAiCalls

NoSetAi == UNCHANGED <<ai, setAiCalls>>

\* tick() of attachment a up to its first await, in the attachment table A;
\* ready: ctx && vw && vh && video.readyState >= 2
TickSync(a, A, ready) ==
    IF A[a].stopped
    THEN /\ att' = [A EXCEPT ![a] = Over(@, "done")]
         /\ NoSetAi
    ELSE IF ~ready
    THEN /\ setAi(a, A, [ai[A[a].tile] EXCEPT !.ready = FALSE])
         /\ att' = [A EXCEPT ![a].pc = "timer"]
    ELSE IF A[a].health # "ok"
    THEN /\ setAi(a, A, Reading(TRUE, "none", <<"stream_not_ok">>))
         /\ att' = [A EXCEPT ![a].pc = "timer"]
    ELSE IF now < A[a].cooldownUntil
    THEN /\ att' = [A EXCEPT ![a].pc = "timer"]
         /\ NoSetAi
    ELSE /\ att' = [A EXCEPT ![a].pc = "model"]
         /\ NoSetAi

AiRest == UNCHANGED <<now, probeVars, incVars, fallVars, emitVars, sceneVars>>

\* the timer of setTimeout(tick, everyMs) fires
TickTimer ==
    \E a \in AttIds :
       /\ att[a].pc = "timer"
       /\ \E ready \in BOOLEAN : TickSync(a, att, ready)
       /\ lockRefused' = 0
       /\ UNCHANGED <<aiBusy, tileHealth, current>>
       /\ AiRest

\* withAiLock without the test of aiBusy
AiLockAlwaysFree == TRUE

\* withAiLock: `if (aiBusy) return null`
AiLockFree == ~aiBusy

\* withAiLock with the release after the call in place of the finally: a call
\* that throws leaves aiBusy set
BusyAfterCallNoFinally(threw) == threw

\* withAiLock: aiBusy once `try { return await fn() } finally { aiBusy = false }`
\* is over, whether fn threw or not
BusyAfterCall(threw) == FALSE

\* a tick that reports an empty reading when withAiLock returns null
LockRefusalReports(a) ==
    /\ UNCHANGED aiBusy
    /\ att' = [att EXCEPT ![a].pc = "timer"]
    /\ lockRefused' = a
    /\ setAi(a, att, Reading(TRUE, "none", <<>>))

\* withAiLock returned null to the tick of attachment a:
\* `if (!detections) { window.setTimeout(tick, everyMs); return; }`
LockRefusal(a) ==
    /\ UNCHANGED aiBusy
    /\ att' = [att EXCEPT ![a].pc = "timer"]
    /\ lockRefused' = a
    /\ NoSetAi

\* getCocoModel() resolves and tick goes on to withAiLock
ModelReady ==
    \E a \in AttIds :
       /\ att[a].pc = "model"
       /\ IF AiLockFree
          THEN /\ aiBusy' = TRUE
               /\ att' = [att EXCEPT ![a].pc = "infer"]
               /\ lockRefused' = 0
               /\ NoSetAi
          ELSE LockRefusal(a)
       /\ UNCHANGED <<tileHealth, current>>
       /\ AiRest

\* model.detect resolves: the finally of withAiLock, then the rest of tick
InferReturns ==
    \E a \in AttIds, o \in FallOutcomes :
       /\ att[a].pc = "infer"
       /\ aiBusy' = BusyAfterCall(FALSE)
       /\ att' = [att EXCEPT ![a].pc = "timer",
                             ![a].cooldownUntil =
                                 IF o.fall = "critical" THEN now + CooldownMs ELSE @]
       /\ setAi(a, att, Reading(TRUE, o.fall, o.reasons))
       /\ lockRefused' = 0
       /\ UNCHANGED <<tileHealth, current>>
       /\ AiRest

\* drawImage or model.detect throws: the finally of withAiLock runs and the
\* exception leaves tick, which has no catch
InferThrows ==
    \E a \in AttIds :
       /\ att[a].pc = "infer"
       /\ aiBusy' = BusyAfterCall(TRUE)
       /\ att' = [att EXCEPT ![a] = Over(@, "dead")]
       /\ NoSetAi
       /\ lockRefused' = 0
       /\ UNCHANGED <<tileHealth, current>>
       /\ AiRest

\* the health probe of a tile reports a new state: setHealth(h)
SetHealth ==
    \E t \in UnsteadyTiles, h \in TileHealthStates :
       /\ h # tileHealth[t]
       /\ tileHealth' = [tileHealth EXCEPT ![t] = h]
       /\ lockRefused' = 0
       /\ UNCHANGED <<aiBusy, att, current, ai, setAiCalls>>
       /\ AiRest

\* health.state is a dependency of the detector effect: after a render with a new
\* value the cleanup of the last run sets its `stopped` and the effect runs
\* again, with fresh closure variables, and calls tick()
EffectRerun ==
    \E t \in Tiles, a \in AttIds :
       /\ att[current[t]].health # tileHealth[t]
       /\ att[a].pc = "unused"
       /\ \A b \in AttIds : b < a => att[b].pc # "unused"
       /\ current' = [current EXCEPT ![t] = a]
       /\ \E ready \in BOOLEAN :
             TickSync(a, [att EXCEPT ![current[t]].stopped = TRUE,
                                     ![a] = Attachment(t, tileHealth[t])], ready)
       /\ lockRefused' = 0
       /\ UNCHANGED <<aiBusy, tileHealth>>
       /\ AiRest

AiTimePasses ==
    /\ now < MaxAiTicks * CooldownMs
    /\ now' = now + CooldownMs
    /\ UNCHANGED <<probeVars, incVars, aiVars, fallVars, emitVars, sceneVars>>

\* both tiles mounted: each effect ran once and its tick found the video not
\* ready yet (setAi with ready false, then setTimeout)
AiMounted ==
    /\ aiBusy = FALSE
    /\ tileHealth = [t \in Tiles |-> "ok"]
    /\ att = [a \in AttIds |-> IF a = 1 THEN Attachment("cam-01", "ok")
                               ELSE IF a = 2 THEN Attachment("webcam", "ok")
                               ELSE Unused]
    /\ current = [t \in Tiles |-> IF t = "cam-01" THEN 1 ELSE 2]
    /\ ai = [t \in Tiles |-> Reading(FALSE, "none", <<>>)]
    /\ setAiCalls = 0
    /\ lockRefused = 0

-----------------------------------------------------------------------------
(* components/VideoTile.tsx: the fall heuristic of the detector tick *)

FallTile == "cam-01"         \* the tile whose heuristic is followed

Null == 0 - 1                \* null of lastCenterY, lastAspect, lastTs, postDropStillStart

OutH == 200                  \* canvas.height of the tile: a 360 x 200 video

Abs(x) == IF x < 0 THEN 0 - x ELSE x

Min(a, b) == IF a < b THEN a ELSE b

Max(a, b) == IF a > b THEN a ELSE b

\* the largest person of a tick: center-Y in canvas pixels, aspect h/w in
\* hundredths; count 0 when model.detect found no person above minScore
Person(centerY, aspect) == [count |-> 1, centerY |-> centerY, aspect |-> aspect]

NoPerson == [count |-> 0, centerY |-> 0, aspect |-> 0]

CenterYs == {20, 22, 80}

Aspects == {150, 60}

People == {NoPerson} \cup {Person(y, a) : y \in CenterYs, a \in Aspects}

\* the closure variables of a run of the detector effect, with the health.state
\* the run captured; emaMotion in millionths
FreshClosure(h) ==
    [lastCenterY |-> Null, lastAspect |-> Null, lastTs |-> Null,
     postDropStillStart |-> Null, cooldownUntil |-> 0, emaMotion |-> 20000, health |-> h]

\* dyNorm.toFixed(2), in hundredths, for dy >= 0
DyNormFixed2(dy) == (dy * 200 + OutH) \div (2 * OutH)

\* Math.round(stillAge / 1000)
StillSeconds(stillAge) == (stillAge + 500) \div 1000

\* a stillness test that waits for more than a full second
StillLongerThanASecond(stillAge) == stillAge > 1000

\* stillAge > 900
StillLongEnough(stillAge) == stillAge > StillMs

\* a drop test with a window of one second
DropWithinASecond(dy, dt) == dy * 100 > DropPercent * OutH /\ dt < 1000

\* drop: dyNorm > 0.12 && dt < 1400, with dyNorm = dy / outH
Drop(dy, dt) == dy * 100 > DropPercent * OutH /\ dt < DropWindowMs

\* emaMotion after the update with motion = min(1, |dyNorm| * 3), in millionths
EmaNext(ema, dy) ==
    Max(4000, Min(250000, (ema * 92 + Min(1000000, (Abs(dy) * 3000000) \div OutH) * 8) \div 100))

\* littleMotion: |dyNorm| < min(0.012, emaMotion * 0.9)
LittleMotion(dy, ema) == Abs(dy) * 10000000 < Min(120000, ema * 9) * OutH

\* postureFlip: lastAspect > 1.05 && aspect < 0.95
PostureFlip(lastAspect, aspect) == lastAspect # Null /\ lastAspect > 105 /\ aspect < 95

\* the branch of no person that leaves every tracking variable as it is
NoOneVisibleKeepsTracking(c) ==
    [c EXCEPT !.emaMotion = Max(6000, (c.emaMotion * 95) \div 100)]

\* the branch of no person that leaves the stillness timer running
NoOneVisibleKeepsTimer(c) ==
    [lastCenterY |-> Null, lastAspect |-> Null, lastTs |-> Null,
     postDropStillStart |-> c.postDropStillStart, cooldownUntil |-> c.cooldownUntil,
     emaMotion |-> Max(6000, (c.emaMotion * 95) \div 100), health |-> c.health]

\* the branch of tick for no person above minScore: the closure it leaves
NoOneVisible(c) ==
    [lastCenterY |-> Null, lastAspect |-> Null, lastTs |-> Null,
     postDropStillStart |-> Null, cooldownUntil |-> c.cooldownUntil,
     emaMotion |-> Max(6000, (c.emaMotion * 95) \div 100), health |-> c.health]

\* the part of tick after model.detect returned, at time t, on the closure c with
\* the largest person p: the closure it leaves, fallState and reasons.  The
\* exponential average is kept in millionths, rounded down at every update.
Heuristic(c, p, t) ==
    IF p.count > 0
    THEN LET tracked == c.lastCenterY # Null /\ c.lastTs # Null
             dt == Max(1, t - c.lastTs)
             dy == p.centerY - c.lastCenterY
             ema == IF tracked THEN EmaNext(c.emaMotion, dy) ELSE c.emaMotion
             drop == Drop(dy, dt)
             postureFlip == PostureFlip(c.lastAspect, p.aspect)
             littleMotion == LittleMotion(dy, ema)
             stillAge == t - c.postDropStillStart
             fall == IF tracked /\ (drop \/ postureFlip) THEN "risk"
                     ELSE IF tracked /\ c.postDropStillStart # Null
                             /\ littleMotion /\ StillLongEnough(stillAge)
                     THEN "critical"
                     ELSE "none"
             reasons == IF ~tracked THEN <<>>
                        ELSE (IF drop THEN <<<<"drop", DyNormFixed2(dy)>>>> ELSE <<>>)
                             \o (IF postureFlip THEN <<<<"posture_flip">>>> ELSE <<>>)
                             \o (IF fall = "critical"
                                 THEN <<<<"still", StillSeconds(stillAge)>>>>
                                 ELSE <<>>)
             start == IF fall = "risk" THEN t
                      ELSE IF fall = "critical" THEN Null
                      ELSE IF tracked /\ c.postDropStillStart # Null /\ stillAge > ExpiryMs
                      THEN Null
                      ELSE c.postDropStillStart
         IN [trk |-> [lastCenterY |-> p.centerY, lastAspect |-> p.aspect, lastTs |-> t,
                      postDropStillStart |-> start,
                      cooldownUntil |-> IF fall = "critical" THEN t + CooldownMs
                                        ELSE c.cooldownUntil,
                      emaMotion |-> ema, health |-> c.health],
             fall |-> fall, reasons |-> reasons]
    ELSE [trk |-> NoOneVisible(c), fall |-> "none", reasons |-> <<>>]

\* the sample p, met by a tick on the closure c that tracked a person, is not
\* little motion
SampleMoved(c, p) ==
    /\ p.count > 0
    /\ c.lastCenterY # Null
    /\ c.lastTs # Null
    /\ ~LittleMotion(p.centerY - c.lastCenterY, EmaNext(c.emaMotion, p.centerY - c.lastCenterY))

\* the history of the readings after a tick went through the heuristic on the
\* closure c with the person p and the result r
FallHistAfter(c, p, r) ==
    [risk |-> IF r.fall = "risk" THEN TRUE
              ELSE IF r.fall = "critical" \/ p.count = 0 THEN FALSE
              ELSE fallHist.risk,
     moved |-> IF r.fall = "risk" THEN FALSE
               ELSE IF r.fall = "critical" THEN fallHist.moved
               ELSE IF r.trk.postDropStillStart = Null THEN FALSE
               ELSE fallHist.moved \/ SampleMoved(c, p)]

NoFallHist == [risk |-> FALSE, moved |-> FALSE]

\* a step of the heuristic loop: ran (a tick or not), and for a tick whether the
\* video was ready and the largest person model.detect returned
FallStep(kind, ready, p) == [ran |-> kind, ready |-> ready, people |-> p]

FallRest == UNCHANGED <<probeVars, incVars, aiBusy, att, current, setAiCalls, lockRefused,
                        emitVars, sceneVars>>

\* one tick of the tile, from its timer to its setTimeout, when the lock is free
\* and model.detect returns.  The timer of a tick is set at least 550 ms after
\* the tick before: no two ticks of a run follow each other within one instant
\* of the model.
FallTick ==
    \E ready \in BOOLEAN, p \in People :
       /\ fallRan.ran # "tick"
       /\ ~ready => p = NoPerson
       /\ fallRan' = FallStep("tick", ready, p)
       /\ IF ~ready
          THEN /\ ai' = [ai EXCEPT ![FallTile].ready = FALSE]
               /\ UNCHANGED <<trk, lastCriticalAt, fallHist>>
          ELSE IF trk.health # "ok"
          THEN /\ ai' = [ai EXCEPT ![FallTile] = Reading(TRUE, "none", <<<<"stream_not_ok">>>>)]
               /\ UNCHANGED <<trk, lastCriticalAt, fallHist>>
          ELSE IF now < trk.cooldownUntil
          THEN UNCHANGED <<ai, trk, lastCriticalAt, fallHist>>
          ELSE LET r == Heuristic(trk, p, now)
               IN /\ trk' = r.trk
                  /\ ai' = [ai EXCEPT ![FallTile] = Reading(TRUE, r.fall, r.reasons)]
                  /\ lastCriticalAt' = IF r.fall = "critical" THEN now ELSE lastCriticalAt
                  /\ fallHist' = FallHistAfter(trk, p, r)
       /\ UNCHANGED <<now, tileHealth>>
       /\ FallRest

\* the health probe reports another state: the tile renders, the cleanup of the
\* detector effect stops the last run and the effect runs again with fresh
\* closure variables
FallHealthChanges ==
    \E h \in TileHealthStates :
       /\ h # tileHealth[FallTile]
       /\ tileHealth' = [tileHealth EXCEPT ![FallTile] = h]
       /\ trk' = FreshClosure(h)
       /\ fallRan' = FallStep("none", FALSE, NoPerson)
       /\ fallHist' = NoFallHist
       /\ UNCHANGED <<now, ai, lastCriticalAt>>
       /\ FallRest

FallTimePasses ==
    /\ now < MaxFallSeconds * 1000
    /\ now' = now + 1000
    /\ fallRan' = FallStep("none", FALSE, NoPerson)
    /\ UNCHANGED <<trk, tileHealth, ai, lastCriticalAt, fallHist>>
    /\ FallRest

\* the detector effect of the tile ran once, on health ok
FallMounted ==
    /\ trk = FreshClosure("ok")
    /\ fallRan = FallStep("none", FALSE, NoPerson)
    /\ lastCriticalAt = Null
    /\ fallHist = NoFallHist

-----------------------------------------------------------------------------
(* components/VideoTile.tsx: the auto-emit effect *)

EmitTile == "cam-01"         \* the tile whose effect is followed

cooldownRiskMs == 30000

cooldownCriticalMs == 12000

\* Date.now() when the tile mounts: the clock of the browser is far above both
\* cooldowns, so the first reading of either severity is always due
MountedAt == 2 * cooldownRiskMs

\* the step of the clock between two runs of the effect
EmitStepMs == cooldownCriticalMs \div 2

\* the ai state of a render, with the confidence of the fall in percent
AiState(ready, fall, confidence, reasons) ==
    [ready |-> ready, fall |-> fall, confidence |-> confidence, reasons |-> reasons]

\* the ai states setAi delivers: the states of the detector tick, `ready: false`
\* on top of an older risk, and a risk without reasons
AiStates ==
    {AiState(FALSE, "none", 0, <<>>),
     AiState(FALSE, "risk", 62, <<"drop:0.30">>),
     AiState(TRUE, "none", 0, <<>>),
     AiState(TRUE, "risk", 62, <<"drop:0.30">>),
     AiState(TRUE, "risk", 80, <<>>),
     AiState(TRUE, "critical", 90, <<"still:1s">>),
     AiState(TRUE, "critical", 84, <<>>)}

\* the ai state of a tick that saw one person at the place of the tick before:
\* personCount 1, motion 0, no fall
StillPerson ==
    [ready |-> TRUE, fall |-> "none", confidence |-> 0, reasons |-> <<>>,
     personCount |-> 1, motion |-> 0]

\* the record of the ai states that showed a still person, after the ai state a
\* was delivered at time t
StillAfter(a, t) ==
    IF a = StillPerson
    THEN [since |-> IF still.since = Null THEN t ELSE still.since, seen |-> t]
    ELSE [since |-> Null, seen |-> Null]

\* the test of the risk branch with the cooldown of the critical branch
RiskDueAtCriticalRate(ref, t) == t - ref.riskMs > cooldownCriticalMs

\* now - lastAiEmitRef.current.riskMs > cooldownRiskMs
RiskDue(ref, t) == t - ref.riskMs > cooldownRiskMs

\* now - lastAiEmitRef.current.criticalMs > cooldownCriticalMs
CriticalDue(ref, t) == t - ref.criticalMs > cooldownCriticalMs

\* a call of onAutoIncident by the tile
Forward(severity, t) == [severity |-> severity, at |-> t]

\* the payload the effect builds for the ai state a
EmitPayload(a) ==
    Payload(EmitTile, "FALL", a.fall, a.confidence,
            IF Len(a.reasons) > 0
            THEN a.reasons
            ELSE IF a.fall = "risk" THEN <<"ai_fall_risk">> ELSE <<"ai_fall_critical">>,
            <<>>)

\* one run of the effect on the ai state a.  App gives every tile an
\* onAutoIncident, so the first return of the effect is never taken.
AutoEmit(a) ==
    IF ~a.ready \/ a.fall = "none"
    THEN UNCHANGED <<incVars, lastAiEmitRef, forwarded>>
    ELSE IF a.fall = "risk" /\ RiskDue(lastAiEmitRef, now)
    THEN /\ AutoIncident(EmitPayload(a))
         /\ lastCall' = Call("onAutoIncident", 0, EmitPayload(a))
         /\ lastAiEmitRef' = [lastAiEmitRef EXCEPT !.riskMs = now]
         /\ forwarded' = Append(forwarded, Forward("risk", now))
    ELSE IF a.fall = "critical" /\ CriticalDue(lastAiEmitRef, now)
    THEN /\ AutoIncident(EmitPayload(a))
         /\ lastCall' = Call("onAutoIncident", 0, EmitPayload(a))
         /\ lastAiEmitRef' = [lastAiEmitRef EXCEPT !.criticalMs = now]
         /\ forwarded' = Append(forwarded, Forward("critical", now))
    ELSE UNCHANGED <<incVars, lastAiEmitRef, forwarded>>

EmitRest == UNCHANGED <<now, probeVars, aiBusy, tileHealth, att, current, setAiCalls,
                        lockRefused, fallVars, sceneVars>>

\* setAi of the detector delivers an ai state: the tile renders and, the
\* reasons being a new array, the effect runs on it
TileReading ==
    \E a \in AiStates \cup {StillPerson} :
       /\ ai' = [ai EXCEPT ![EmitTile] = a]
       /\ still' = StillAfter(a, now)
       /\ AutoEmit(a)
       /\ EmitRest

\* App renders and hands the tile a new onAutoIncident: the effect runs again
\* on the ai state the tile already has
TileRerender ==
    /\ AutoEmit(ai[EmitTile])
    /\ UNCHANGED <<ai, still>>
    /\ EmitRest

EmitTimePasses ==
    /\ now < MountedAt + MaxEmitSteps * EmitStepMs
    /\ now' = now + EmitStepMs
    /\ UNCHANGED <<probeVars, incVars, aiVars, fallVars, emitVars, sceneVars>>

\* useRef({ riskMs: 0, criticalMs: 0 }) of the mounted tile
EmitMounted ==
    /\ lastAiEmitRef = [riskMs |-> 0, criticalMs |-> 0]
    /\ forwarded = <<>>
    /\ still = [since |-> Null, seen |-> Null]

-----------------------------------------------------------------------------
(* lib/sceneProbe.ts *)

SceneTotal == SceneW * SceneH

cellW == SceneW \div gridX

cellH == SceneH \div gridY

GridCells == 1..(gridX * gridY)

\* Math.max(5, Math.floor((cellW * cellH) * 0.02))
cellThreshold == Max(MinCellThreshold, (cellW * cellH * 2) \div 100)

\* a grey frame of the video: in each of its first `cells` cells of the grid,
\* `lit` pixels (the same ones in every frame) have the grey level `level`;
\* every other pixel is 0
Frame(cells, lit, level) == [cells |-> cells, lit |-> lit, level |-> level]

NoFrame == Frame(0 - 1, 0, 0)

DarkFrame == Frame(0, 0, 0)

\* the frames the video shows: none, three, seven or all of the cells lit, by
\* as many pixels as the cell threshold or one more, at a level at the motion
\* threshold, one above it, or white
Frames ==
    {DarkFrame}
    \cup {Frame(k, n, g) : k \in {3, crowdMinCells, gridX * gridY},
                           n \in {cellThreshold, cellThreshold + 1},
                           g \in {motionThreshold, motionThreshold + 1, MaxGray}}

\* the pixels of cell i lit in frame f
LitIn(f, i) == IF i <= f.cells THEN f.lit ELSE 0

\* the pixels of cell i with Math.abs(gray[idx] - last[idx]) > motionThreshold
\* between the frames a and b, and the sum of their differences
CellDiff(a, b, i) ==
    LET both == Min(LitIn(a, i), LitIn(b, i))
        one == Max(LitIn(a, i), LitIn(b, i)) - both
        level == IF LitIn(a, i) > LitIn(b, i) THEN a.level ELSE b.level
        dBoth == Abs(a.level - b.level)
        nBoth == IF dBoth > motionThreshold THEN both ELSE 0
        nOne == IF level > motionThreshold THEN one ELSE 0
    IN [changed |-> nBoth + nOne, sumDiff |-> nBoth * dBoth + nOne * level]

RECURSIVE SumOver(_, _)
SumOver(f, n) == IF n = 0 THEN 0 ELSE f[n] + SumOver(f, n - 1)

\* a result handed to onChange; motion as sumDiff, in units of 1 / (total * 255)
SceneResult(peopleBand, motion, ok) ==
    [peopleBand |-> peopleBand, motion |-> motion, pixelsOk |-> ok]

\* activeCells > crowdMinCells in place of >=
CrowdReachedAbove(activeCells) == activeCells > crowdMinCells

\* activeCells >= crowdMinCells
CrowdReached(activeCells) == activeCells >= crowdMinCells

\* the result of a sample of the frame gray after the frame before
Compare(before, gray) ==
    LET cells == [i \in GridCells |-> CellDiff(before, gray, i).changed]
        changed == SumOver(cells, gridX * gridY)
        sumDiff == SumOver([i \in GridCells |-> CellDiff(before, gray, i).sumDiff],
                           gridX * gridY)
        motion == Max(0, Min(SceneTotal * MaxGray, sumDiff))
        activeCells == Cardinality({i \in GridCells : cells[i] > cellThreshold})
        peopleBand == IF changed * 1000 < presenceMinPerMille * SceneTotal THEN "none"
                      ELSE IF CrowdReached(activeCells) THEN "crowd"
                      ELSE "few"
    IN SceneResult(peopleBand, motion, TRUE)

\* a catch that leaves the interval armed
TimerAfterCatchStillArmed == TRUE

\* the interval after the catch: window.clearInterval(timer)
TimerAfterCatch == FALSE

\* a step of the scene probe
SceneStep(kind, ready, gray, throws, calls) ==
    [ran |-> kind, ready |-> ready, gray |-> gray, throws |-> throws, calls |-> calls]

SceneRest == UNCHANGED <<now, probeVars, incVars, aiVars, fallVars, emitVars>>

\* the setInterval callback (every sampleEveryMs) when the video shows the
\* frame gray; ready: ctx, readyState >= 2 and a video size; throws: drawImage
\* or getImageData throws
sceneTick ==
    \E ready \in BOOLEAN, gray \in Frames, throws \in BOOLEAN :
       /\ timer
       /\ ~ready => (gray = DarkFrame /\ ~throws)
       /\ throws => gray = DarkFrame
       /\ IF ~ready
          THEN /\ sceneRan' = SceneStep("tick", ready, gray, throws, 0)
               /\ UNCHANGED <<last, pixelsOk, timer, onChangeLast>>
          ELSE IF throws
          THEN /\ pixelsOk' = FALSE
               /\ onChangeLast' = SceneResult("unknown", 0, FALSE)
               /\ timer' = TimerAfterCatch
               /\ sceneRan' = SceneStep("tick", ready, gray, throws, 1)
               /\ UNCHANGED last
          ELSE IF last = NoFrame
          THEN /\ last' = gray
               /\ onChangeLast' = SceneResult("unknown", 0, TRUE)
               /\ sceneRan' = SceneStep("tick", ready, gray, throws, 1)
               /\ UNCHANGED <<pixelsOk, timer>>
          ELSE /\ last' = gray
               /\ onChangeLast' = Compare(last, gray)
               /\ sceneRan' = SceneStep("tick", ready, gray, throws, 1)
               /\ UNCHANGED <<pixelsOk, timer>>
       /\ SceneRest

\* the function attachSceneProbe returns: window.clearInterval(timer)
sceneDetach ==
    /\ timer
    /\ timer' = FALSE
    /\ sceneRan' = SceneStep("detach", FALSE, DarkFrame, FALSE, 0)
    /\ UNCHANGED <<last, pixelsOk, onChangeLast>>
    /\ SceneRest

\* the sample period goes by
ScenePeriod ==
    /\ sceneRan.ran # "none"
    /\ sceneRan' = SceneStep("none", FALSE, DarkFrame, FALSE, 0)
    /\ UNCHANGED <<last, pixelsOk, timer, onChangeLast>>
    /\ SceneRest

\* the state attachSceneProbe leaves
SceneAttached ==
    /\ last = NoFrame
    /\ pixelsOk = TRUE
    /\ timer = TRUE
    /\ onChangeLast = SceneResult("unknown", 0, TRUE)
    /\ sceneRan = SceneStep("none", FALSE, DarkFrame, FALSE, 0)

-----------------------------------------------------------------------------
(* The specifications *)

\* the state attachVideoProbe leaves: health "init", then emit("attached")
ProbeAttached(enable, hasCtx) ==
    /\ video = [paused |-> FALSE, ended |-> FALSE, currentTime |-> 0]
    /\ enablePixelProbe = enable
    /\ ctx = hasCtx
    /\ listening = TRUE
    /\ disposed = FALSE
    /\ health = Health("ok", <<"attached">>)
    /\ lastTime = 0
    /\ lastProgressAt = 0
    /\ blackStreak = 0
    /\ pixelDisabled = FALSE
    /\ onHealthLast = Health("ok", <<"attached">>)
    /\ onHealthCalled = TRUE
    /\ ran = <<"none">>

\* useState<Incident[]>(() => [])
IncEmpty ==
    /\ incidents = <<>>
    /\ nextId = 0
    /\ lastCall = Call("none", 0, NoPayload)
    /\ incidentsSorted = <<>>
    /\ safetyState = "none"
    /\ resolved = {}

InitProbe ==
    /\ now = 0
    /\ \E o \in {<<TRUE, TRUE>>, <<TRUE, FALSE>>, <<FALSE, TRUE>>} : ProbeAttached(o[1], o[2])
    /\ IncEmpty
    /\ AiMounted
    /\ FallMounted
    /\ EmitMounted
    /\ SceneAttached

NextProbe ==
    \/ onWaiting
    \/ onStalled
    \/ onPlaying
    \/ onCanPlay
    \/ onError
    \/ frozenTick
    \/ pixelTick
    \/ detach
    \/ VideoPosition
    \/ VideoPaused
    \/ VideoEnded
    \/ TimePasses

SpecProbe == InitProbe /\ [][NextProbe]_vars

InitInc ==
    /\ now = 0
    /\ ProbeAttached(TRUE, TRUE)
    /\ IncEmpty
    /\ AiMounted
    /\ FallMounted
    /\ EmitMounted
    /\ SceneAttached

NextInc ==
    \/ onAutoIncident
    \/ Ack
    \/ Resolve
    \/ ClockTick

SpecInc == InitInc /\ [][NextInc]_vars

InitAi ==
    /\ now = 0
    /\ ProbeAttached(TRUE, TRUE)
    /\ IncEmpty
    /\ AiMounted
    /\ FallMounted
    /\ EmitMounted
    /\ SceneAttached

NextAi ==
    \/ TickTimer
    \/ ModelReady
    \/ InferReturns
    \/ InferThrows
    \/ SetHealth
    \/ EffectRerun
    \/ AiTimePasses

SpecAi == InitAi /\ [][NextAi]_vars

InitFall ==
    /\ now = 0
    /\ ProbeAttached(TRUE, TRUE)
    /\ IncEmpty
    /\ AiMounted
    /\ FallMounted
    /\ EmitMounted
    /\ SceneAttached

NextFall ==
    \/ FallTick
    \/ FallHealthChanges
    \/ FallTimePasses

SpecFall == InitFall /\ [][NextFall]_vars

InitEmit ==
    /\ now = MountedAt
    /\ ProbeAttached(TRUE, TRUE)
    /\ IncEmpty
    /\ AiMounted
    /\ FallMounted
    /\ EmitMounted
    /\ SceneAttached

NextEmit ==
    \/ TileReading
    \/ TileRerender
    \/ EmitTimePasses

SpecEmit == InitEmit /\ [][NextEmit]_vars

\* the (camera, type) of the n-th incident of a list given to sortInbox
SortKeys == <<<<"cam-01", "FALL">>, <<"cam-01", "INACTIVITY">>,
              <<"webcam", "FALL">>, <<"webcam", "INACTIVITY">>>>

\* the n-th incident of such a list
SortedItems(n) ==
    {Spread(newIncident(SortKeys[n][1], SortKeys[n][2], sev, n, t), [acked |-> a]) :
        sev \in Severities, t \in {0, MaxClock}, a \in BOOLEAN}

\* the lists given to sortInbox: one incident per (camera, type), of every
\* severity, acknowledged or not, of two ages, in every order of these
RECURSIVE SortInputsOfLen(_)
SortInputsOfLen(n) ==
    IF n = 0
    THEN {<<>>}
    ELSE {Append(list, it) : list \in SortInputsOfLen(n - 1), it \in SortedItems(n)}

SortInputs == UNION {SortInputsOfLen(n) : n \in 0..MaxSortLen}

\* App rendered with a list of incidents in its state
InitSort ==
    /\ now = MaxClock
    /\ ProbeAttached(TRUE, TRUE)
    /\ incidents \in SortInputs
    /\ nextId = Len(incidents)
    /\ lastCall = Call("none", 0, NoPayload)
    /\ incidentsSorted = sortInbox(incidents).result
    /\ safetyState = globalSafetyState(incidents)
    /\ resolved = {}
    /\ AiMounted
    /\ FallMounted
    /\ EmitMounted
    /\ SceneAttached

NextSort ==
    \/ Ack
    \/ Resolve

SpecSort == InitSort /\ [][NextSort]_vars

InitScene ==
    /\ now = 0
    /\ ProbeAttached(TRUE, TRUE)
    /\ IncEmpty
    /\ AiMounted
    /\ FallMounted
    /\ EmitMounted
    /\ SceneAttached

NextScene ==
    \/ sceneTick
    \/ sceneDetach
    \/ ScenePeriod

SpecScene == InitScene /\ [][NextScene]_vars

-----------------------------------------------------------------------------
(* Properties *)

\* C1: at any time at most one tick, over all tiles and all effect runs, is
\* inside the function given to withAiLock (the model inference).
OneInferenceAtATime == Cardinality({a \in AttIds : att[a].pc = "infer"}) <= 1

\* one tile is inferring while the tick of another tile is about to ask for the lock
LockContended ==
    \E a, b \in AttIds :
       /\ att[a].pc = "infer"
       /\ att[b].pc = "model"
       /\ att[a].tile # att[b].tile

\* C2: the incident list never holds two incidents with the same cameraId and
\* the same type.
OneActivePerKey ==
    \A i, j \in DOMAIN incidents :
       (incidents[i].cameraId = incidents[j].cameraId /\ incidents[i].type = incidents[j].type)
          => i = j

\* a second report for a key of the list was merged while another key is listed
RetriggerMerged ==
    /\ Len(incidents) = 2
    /\ lastCall.op = "onAutoIncident"
    /\ \E i \in DOMAIN incidents :
          /\ incidents[i].cameraId = lastCall.payload.camera
          /\ incidents[i].type = lastCall.payload.type
          /\ incidents[i].severity = "risk"
          /\ lastCall.payload.severity = "watch"

\* C3: every health the probe hands to onHealth differs from the one it handed
\* over before in its state or in its reason.
NoRepeatedHealth ==
    [][onHealthCalled' =>
          ~(onHealthLast'.state = onHealthLast.state /\ onHealthLast'.reason = onHealthLast.reason)]_vars

\* a waiting event met health (buffering, waiting) and onHealth was not called
RepeatSuppressed ==
    /\ ran = <<"waiting">>
    /\ ~onHealthCalled
    /\ health = Health("buffering", <<"waiting">>)

\* C4: a step of an attachment whose `stopped` is set calls setAi no more, an
\* inference in flight included.
StoppedDeliversNothing ==
    [][\A a \in AttIds :
          (att[a].stopped /\ att'[a] # att[a]) => setAiCalls' = setAiCalls]_vars

\* the cooldown of the auto-emit effect for a severity
EmitWindow(severity) == IF severity = "risk" THEN cooldownRiskMs ELSE cooldownCriticalMs

\* C12: the tile of a source calls onAutoIncident with severity risk at most
\* once in any 30 s and with severity critical at most once in any 12 s: two
\* calls with the same severity are more than the window of the severity
\* apart, whatever ai states are delivered and however often the effect runs.
ForwardedOncePerWindow ==
    \A i, j \in DOMAIN forwarded :
       (i < j /\ forwarded[i].severity = forwarded[j].severity)
          => forwarded[j].at - forwarded[i].at > EmitWindow(forwarded[i].severity)

\* a risk was forwarded a second time, after runs of the effect on a risk
\* inside the window that forwarded nothing, and so was a critical
ForwardedAgain ==
    /\ \E i, j \in DOMAIN forwarded :
          i < j /\ forwarded[i].severity = "risk" /\ forwarded[j].severity = "risk"
    /\ \E i, j \in DOMAIN forwarded :
          i < j /\ forwarded[i].severity = "critical" /\ forwarded[j].severity = "critical"

\* C13: an inference that ends, by returning or by throwing, delivers a reading
\* (one with reasons ai_error when it threw) and leaves a timer pending for the
\* next tick of its attachment.
InferenceAlwaysReports ==
    [][\A a \in AttIds :
          (att[a].pc = "infer" /\ att'[a].pc # "infer")
             => (setAiCalls' # setAiCalls /\ att'[a].pc = "timer")]_vars

\* C14: a tick that withAiLock turns away because aiBusy is set runs no
\* inference, leaves its closure and every delivered reading as they are, leaves
\* the lock to its holder and has one timer pending for its retry.
BusyTickOnlyRetries ==
    [][\A a \in AttIds :
          (att[a].pc = "model" /\ aiBusy /\ att'[a].pc # "model")
             => /\ att' = [att EXCEPT ![a].pc = "timer"]
                /\ ai' = ai
                /\ setAiCalls' = setAiCalls
                /\ aiBusy' = aiBusy
                /\ Cardinality({b \in AttIds : att'[b].pc = "infer"}) = 1]_vars

\* the lock turned a tick of one tile away while a tick of the other tile infers
TickTurnedAway ==
    /\ lockRefused # 0
    /\ att[lockRefused].pc = "timer"
    /\ \E b \in AttIds : att[b].pc = "infer" /\ att[b].tile # att[lockRefused].tile

\* C15: aiBusy is set exactly while some tick is inside the function given to
\* withAiLock; in particular it is clear after an inference that threw.
LockHeldOnlyWhileInferring == aiBusy <=> (\E a \in AttIds : att[a].pc = "infer")

\* the inference of one tile threw and a tick of the other tile holds the lock
LockTakenAfterFailure ==
    \E a, b \in AttIds :
       /\ att[a].pc = "dead"
       /\ att[b].pc = "infer"
       /\ att[a].tile # att[b].tile
       /\ aiBusy

\* C16: once detach has run, no listener and no interval callback of the
\* attachment runs and onHealth is not called, whatever the video does.
NothingAfterDetach ==
    [][disposed => (~onHealthCalled' /\ ran' = <<"none">>)]_vars

\* after detach the video moved on and time passed
VideoGoesOnAfterDetach ==
    /\ disposed
    /\ ran = <<"none">>
    /\ video.currentTime # lastTime
    /\ now > lastProgressAt

\* C17: a tick enters the function given to withAiLock only while the health of
\* its tile is ok.
InferenceOnlyOnHealthyStream ==
    [][\A a \in AttIds :
          (att[a].pc # "infer" /\ att'[a].pc = "infer") => tileHealth[att[a].tile] = "ok"]_vars

\* the tick of the last step went through the heuristic: the video was ready,
\* the run had captured health ok and was out of its cooldown
HeuristicRan ==
    /\ fallRan'.ran = "tick"
    /\ fallRan'.ready
    /\ trk.health = "ok"
    /\ now >= trk.cooldownUntil

\* C11: in the 12 seconds after a critical reading of a tile no tick of the tile
\* yields risk or critical, health changes in between included.
QuietAfterCritical ==
    [][(HeuristicRan /\ ai'[FallTile].fall \in {"risk", "critical"})
          => (lastCriticalAt = Null \/ now >= lastCriticalAt + CooldownMs)]_vars

\* C18: a tick through the heuristic that tracked a person on the tick before
\* and sees the center-Y more than 0.12 of the frame height lower, less than
\* 1400 ms later, yields risk, with a drop reason first, and sets the stillness
\* timer to the time of the tick.
DropYieldsRisk ==
    [][(/\ HeuristicRan
        /\ fallRan'.people.count > 0
        /\ trk.lastCenterY # Null
        /\ trk.lastTs # Null
        /\ (fallRan'.people.centerY - trk.lastCenterY) * 100 > DropPercent * OutH
        /\ now - trk.lastTs < DropWindowMs)
          => /\ ai'[FallTile].ready
             /\ ai'[FallTile].fall = "risk"
             /\ ai'[FallTile].reasons[1][1] = "drop"
             /\ trk'.postDropStillStart = now]_vars

\* a tick reported a drop of 0.30 of the frame height while the stillness timer
\* of an earlier risk was running
DropSeenAgain ==
    /\ fallRan.ran = "tick"
    /\ ai[FallTile] = Reading(TRUE, "risk", <<<<"drop", 30>>>>)
    /\ trk.postDropStillStart = now
    /\ now >= 3000
    /\ lastCriticalAt = Null

\* C19: with the stillness timer running for more than 900 ms, a tick through
\* the heuristic that sees the tracked person with little motion and neither a
\* drop nor a posture flip yields critical, with a still reason, clears the
\* timer and sets the cooldown to 12 seconds from the tick.
StillnessYieldsCritical ==
    [][(/\ HeuristicRan
        /\ fallRan'.people.count > 0
        /\ trk.lastCenterY # Null
        /\ trk.lastTs # Null
        /\ trk.postDropStillStart # Null
        /\ now - trk.postDropStillStart > StillMs
        /\ ~PostureFlip(trk.lastAspect, fallRan'.people.aspect)
        /\ LittleMotion(fallRan'.people.centerY - trk.lastCenterY,
                        EmaNext(trk.emaMotion, fallRan'.people.centerY - trk.lastCenterY)))
          => /\ ai'[FallTile].ready
             /\ ai'[FallTile].fall = "critical"
             /\ ai'[FallTile].reasons =
                   <<<<"still", StillSeconds(now - trk.postDropStillStart)>>>>
             /\ trk'.postDropStillStart = Null
             /\ trk'.cooldownUntil = now + CooldownMs]_vars

\* a tick one second after a risk found the person still and reported critical
StillnessConfirmed ==
    /\ fallRan.ran = "tick"
    /\ ai[FallTile] = Reading(TRUE, "critical", <<<<"still", 1>>>>)
    /\ trk.postDropStillStart = Null
    /\ trk.cooldownUntil = now + CooldownMs
    /\ lastCriticalAt = now

\* C20: no tick yields critical when the stillness timer has run for more than
\* the expiry window of 4500 ms.
NoCriticalAfterExpiry ==
    [][(HeuristicRan /\ ai'[FallTile].fall = "critical")
          => now - trk.postDropStillStart <= ExpiryMs]_vars

\* C5: an incident keeps or raises its severity in every step that keeps it, and
\* a report for a key that is listed leaves the greater of the listed and the
\* reported severity.
SeverityNeverDecreases ==
    [][/\ \A i \in DOMAIN incidents, j \in DOMAIN incidents' :
             incidents'[j].id = incidents[i].id
                => severityRank(incidents'[j].severity) >= severityRank(incidents[i].severity)
       /\ (lastCall'.op = "onAutoIncident" /\ now' = now) =>
             LET p == lastCall'.payload
                 i == FindIndex(incidents, p.camera, p.type)
             IN i > 0 =>
                   incidents'[i].severity =
                      IF severityRank(p.severity) > severityRank(incidents[i].severity)
                      THEN p.severity
                      ELSE incidents[i].severity]_vars

\* the last report for a key said watch and the incident of the key is critical
LowerReportKeptCritical ==
    /\ lastCall.op = "onAutoIncident"
    /\ lastCall.payload.severity = "watch"
    /\ \E i \in DOMAIN incidents :
          /\ incidents[i].cameraId = lastCall.payload.camera
          /\ incidents[i].type = lastCall.payload.type
          /\ incidents[i].severity = "critical"

\* C6: a report for a key that is listed replaces confidence, reasons and
\* eventTimeSec of the incident by the reported ones whatever the reported
\* severity, sets acked to false and createdAt to the time of the report.
RetriggerReplacesEvidence ==
    [][(lastCall'.op = "onAutoIncident" /\ now' = now) =>
          LET p == lastCall'.payload
              i == FindIndex(incidents, p.camera, p.type)
          IN i > 0 =>
                /\ Len(incidents') = Len(incidents)
                /\ incidents'[i].id = incidents[i].id
                /\ incidents'[i].confidence = p.confidence
                /\ incidents'[i].reasons = p.reasons
                /\ incidents'[i].eventTimeSec = p.eventTimeSec
                /\ incidents'[i].acked = FALSE
                /\ incidents'[i].createdAt = now]_vars

\* a critical incident created earlier carries the evidence of a later report
\* that said watch, unacknowledged and dated at the report
LowerReportReplacedEvidence ==
    /\ now > 0
    /\ lastCall = Call("onAutoIncident", 0,
                       Payload("cam-01", "FALL", "watch", 62, <<"drop:0.30">>, <<>>))
    /\ \E i \in DOMAIN incidents :
          /\ incidents[i].cameraId = "cam-01"
          /\ incidents[i].type = "FALL"
          /\ incidents[i].severity = "critical"
          /\ incidents[i].confidence = 62
          /\ incidents[i].reasons = <<"drop:0.30">>
          /\ incidents[i].eventTimeSec = <<>>
          /\ ~incidents[i].acked
          /\ incidents[i].createdAt = now

\* C7: a watchdog tick on a video that is neither paused nor ended reports
\* frozen when the position is the one the watchdog saw last and it saw it
\* change at least frozenSeconds ago; a tick that finds the position increased
\* while the health is frozen brings the health back to ok.
FrozenDetection ==
    [][(ran' = <<"frozenTick">> /\ ~video.paused /\ ~video.ended) =>
          /\ (video.currentTime = lastTime /\ now - lastProgressAt >= frozenSeconds * 1000)
                => health'.state = "frozen"
          /\ (health.state = "frozen" /\ video.currentTime > lastTime)
                => health'.state = "ok"]_vars

\* the watchdog reported frozen and then saw the position move
FrozenThenProgress ==
    /\ ran = <<"frozenTick">>
    /\ onHealthCalled
    /\ health = Health("ok", <<"time_progress">>)
    /\ lastTime > 0

\* C8: a watchdog tick that meets health buffering or error leaves the health
\* as it is.
WatchdogKeepsBufferingAndError ==
    [][(ran' = <<"frozenTick">> /\ health.state \in {"buffering", "error"})
          => health' = health]_vars

\* C9: from health error, every step other than a playing event leaves the
\* health in error.
ErrorUntilPlaying ==
    [][health.state = "error" => (health'.state = "error" \/ ran' = <<"playing">>)]_vars

\* C10: a tick of the pixel sampler that meets health black and a frame with a
\* dark ratio below the threshold brings the health back to ok.
BlackRecovers ==
    [][(/\ ran'[1] = "pixelTick"
        /\ ~ran'[3]
        /\ ~RatioAtLeastThreshold(ran'[2])
        /\ health.state = "black")
          => health'.state = "ok"]_vars

\* C22: a sample the pixel sampler reads (probe enabled, health ok) with a dark
\* ratio of at least blackRatioThreshold adds one to the dark streak and, once
\* the streak has reached blackConsecutive, moves the health to black and
\* reports it; a sample with a lower ratio sets the streak to 0.
DarkStreakYieldsBlack ==
    [][(/\ ran'[1] = "pixelTick"
        /\ ~ran'[3]
        /\ ~disposed /\ enablePixelProbe /\ ~pixelDisabled /\ ctx
        /\ health.state = "ok")
          => IF ran'[2] * 100 >= blackRatioPercent * PixelTotal
             THEN /\ blackStreak' = blackStreak + 1
                  /\ blackStreak' >= blackConsecutive
                        => (health'.state = "black" /\ onHealthCalled'
                               /\ onHealthLast'.state = "black")
                  /\ blackStreak' < blackConsecutive => health' = health
             ELSE /\ blackStreak' = 0
                  /\ health' = health]_vars

\* the second dark sample in a row moved the health to black
SecondDarkSampleReported ==
    /\ ran[1] = "pixelTick"
    /\ ran[2] = 4770
    /\ blackStreak = blackConsecutive
    /\ onHealthCalled
    /\ health = Health("black", <<"black_ratio", 92>>)

\* C23: a tick of the pixel sampler that meets enablePixelProbe unset or a
\* health other than ok reads no frame: it leaves the health, the dark streak
\* and pixelDisabled as they are and reports nothing; the health becomes black
\* only from ok, with the pixel probe enabled.
SamplerOnlyWhenOk ==
    [][/\ (ran'[1] = "pixelTick" /\ (~enablePixelProbe \/ health.state # "ok"))
             => (/\ UNCHANGED <<health, onHealthLast, blackStreak, pixelDisabled>>
                 /\ ~onHealthCalled')
       /\ (health'.state = "black" /\ health.state # "black")
             => (health.state = "ok" /\ enablePixelProbe /\ ran'[1] = "pixelTick")]_vars

\* the sampler met a black frame while the health was buffering, after one
\* dark sample, and left everything as it was
DarkFrameWhileBuffering ==
    /\ ran = <<"pixelTick", PixelTotal, FALSE>>
    /\ enablePixelProbe /\ ctx /\ ~pixelDisabled /\ ~disposed
    /\ health.state = "buffering"
    /\ blackStreak = 1

\* C24: a tick of the pixel sampler whose pixel read throws sets pixelDisabled
\* and leaves the health and the streak as they are, reporting nothing;
\* pixelDisabled is never unset; and once it is set no tick of the sampler
\* changes anything and no step reports black.
PixelThrowDisablesSampler ==
    [][/\ (/\ ran'[1] = "pixelTick"
           /\ ran'[3]
           /\ ~disposed /\ enablePixelProbe /\ ~pixelDisabled /\ ctx
           /\ health.state = "ok")
             => (/\ pixelDisabled'
                 /\ UNCHANGED <<health, onHealthLast, blackStreak>>
                 /\ ~onHealthCalled')
       /\ pixelDisabled
             => (/\ pixelDisabled'
                 /\ ran'[1] = "pixelTick"
                       => (UNCHANGED <<health, onHealthLast, blackStreak>> /\ ~onHealthCalled')
                 /\ health'.state # "black"
                 /\ ~(onHealthCalled' /\ onHealthLast'.state = "black"))]_vars

\* after a pixel read threw, the sampler met a black frame on health ok and
\* kept away from it
DarkFrameAfterThrow ==
    /\ pixelDisabled
    /\ ran = <<"pixelTick", PixelTotal, FALSE>>
    /\ enablePixelProbe /\ ctx /\ ~disposed
    /\ health.state = "ok"

\* the reason of an error event, by the code of video.error
ErrorClass(code) ==
    IF code = 1 THEN "ABORTED"
    ELSE IF code = 2 THEN "NETWORK"
    ELSE IF code = 3 THEN "DECODE"
    ELSE IF code = 4 THEN "SRC_NOT_SUPPORTED"
    ELSE "UNKNOWN"

\* C25: while the probe is attached, whatever the health is, a waiting or
\* stalled event leaves the health buffering with the event as reason, a
\* playing or canplay event leaves it ok with the event as reason, and an
\* error event leaves it error with the class of the media error as reason;
\* the health then is the one onHealth was given last.
EventsSetHealth ==
    [][(listening /\ ~disposed) =>
          /\ ran' = <<"waiting">> => health' = Health("buffering", <<"waiting">>)
          /\ ran' = <<"stalled">> => health' = Health("buffering", <<"stalled">>)
          /\ ran' = <<"playing">> => health' = Health("ok", <<"playing">>)
          /\ ran' = <<"canplay">> => health' = Health("ok", <<"canplay">>)
          /\ ran'[1] = "error"
                => health' = Health("error", <<"media", ErrorClass(ran'[2])>>)
          /\ ran'[1] \in {"waiting", "stalled", "playing", "canplay", "error"}
                => (/\ onHealthLast' = health'
                    /\ onHealthCalled' <=> health' # health)]_vars

\* a decode error was reported, a second or more after the last progress
DecodeErrorReported ==
    /\ ran = <<"error", 3>>
    /\ onHealthCalled
    /\ health = Health("error", <<"media", "DECODE">>)
    /\ lastProgressAt < now

\* the ids of the incidents of a list
IdsOf(list) == {list[i].id : i \in DOMAIN list}

\* C26: ack(id) leaves every incident as it is but the one with the id, which
\* it leaves acknowledged and otherwise as it is; when no incident has the id,
\* or the one that has it is acknowledged already (a second ack included), the
\* list after the call is the list before it.
AckSetsAcknowledged ==
    [][lastCall'.op = "ack" =>
          LET id == lastCall'.id
          IN /\ Len(incidents') = Len(incidents)
             /\ \A i \in DOMAIN incidents :
                   incidents'[i] = IF incidents[i].id = id
                                   THEN [incidents[i] EXCEPT !.acked = TRUE]
                                   ELSE incidents[i]
             /\ (\A i \in DOMAIN incidents : incidents[i].id = id => incidents[i].acked)
                   => incidents' = incidents]_vars

\* of two incidents one was acknowledged, the other is as it was
AckedOneOfTwo ==
    /\ lastCall.op = "ack"
    /\ Len(incidents) = 2
    /\ \E i, j \in DOMAIN incidents :
          /\ incidents[i].id = lastCall.id
          /\ incidents[i].acked
          /\ incidents[j].id # lastCall.id
          /\ ~incidents[j].acked

\* C27: resolve(id) leaves the list without the incident with the id, the
\* others as they were and in their order; when no incident has the id (a
\* second resolve included) the list stays as it is; an ack(id) for an id that
\* no incident has leaves the list as it is; and an id that was given out and
\* is in the list no more is in it in no later state.
ResolveRemoves ==
    [][/\ lastCall'.op = "resolve" =>
             LET id == lastCall'.id
                 kept == {i \in DOMAIN incidents : incidents[i].id # id}
             IN /\ id \notin IdsOf(incidents')
                /\ Len(incidents') = Cardinality(kept)
                /\ \A i \in kept :
                      incidents'[Cardinality({j \in kept : j <= i})] = incidents[i]
                /\ id \notin IdsOf(incidents) => incidents' = incidents
       /\ (lastCall'.op = "ack" /\ lastCall'.id \notin IdsOf(incidents))
             => incidents' = incidents
       /\ \A id \in 1..nextId :
             id \notin IdsOf(incidents) => id \notin IdsOf(incidents')]_vars

\* an ack for an incident that was resolved, with another incident listed
AckAfterResolve ==
    /\ lastCall.op = "ack"
    /\ lastCall.id <= nextId
    /\ lastCall.id \notin IdsOf(incidents)
    /\ incidents # <<>>

\* C28: the list sortInbox returns holds the incidents of its argument, each
\* once (the incidents of a list differ in their id); in it no acknowledged
\* incident precedes an unacknowledged one, of two incidents with the same
\* acknowledgement the one of higher severity comes first, and of two with the
\* same acknowledgement and severity the one created later comes first; and
\* the list in the state of App is the one its handler set, in its order.
InboxSorted ==
    /\ [](/\ Len(incidentsSorted) = Len(incidents)
          /\ IdsOf(incidentsSorted) = IdsOf(incidents)
          /\ {incidentsSorted[i] : i \in DOMAIN incidentsSorted}
                = {incidents[i] : i \in DOMAIN incidents}
          /\ \A i, j \in DOMAIN incidentsSorted :
                i < j =>
                   LET a == incidentsSorted[i]
                       b == incidentsSorted[j]
                   IN /\ a.acked => b.acked
                      /\ a.acked = b.acked
                            => severityRank(a.severity) >= severityRank(b.severity)
                      /\ (a.acked = b.acked /\ a.severity = b.severity)
                            => a.createdAt >= b.createdAt)
    /\ [][/\ lastCall'.op = "ack" => incidents' = ack(incidents, lastCall'.id)
          /\ lastCall'.op = "resolve" => incidents' = resolve(incidents, lastCall'.id)]_vars

\* the critical incident at the head of the list was acknowledged: in the
\* sorted list it comes after the unacknowledged watch
UnackedWatchBeforeAckedCritical ==
    /\ lastCall.op = "ack"
    /\ Len(incidents) = 2
    /\ incidents[1].id = lastCall.id
    /\ incidents[1].acked /\ incidents[1].severity = "critical"
    /\ ~incidents[2].acked /\ incidents[2].severity = "watch"
    /\ incidentsSorted = <<incidents[2], incidents[1]>>

\* C29: the safety state of a render is none when the list is empty and else
\* the severity of an incident of the list that no incident of the list
\* outranks, acknowledged or not.
SafetyStateIsMaximum ==
    /\ incidents = <<>> <=> safetyState = "none"
    /\ incidents # <<>> =>
          /\ \E i \in DOMAIN incidents : incidents[i].severity = safetyState
          /\ \A i \in DOMAIN incidents :
                severityRank(incidents[i].severity) <= severityRank(safetyState)

\* the safety state is critical by an acknowledged incident listed before an
\* unacknowledged one of lower severity
AckedCriticalCounts ==
    /\ Len(incidents) = 2
    /\ incidents[1].acked /\ incidents[1].severity = "critical"
    /\ ~incidents[2].acked /\ incidents[2].severity = "risk"
    /\ safetyState = "critical"

\* C21: a tick through the heuristic that finds no person leaves lastCenterY,
\* lastAspect, lastTs and postDropStillStart null and yields none; and a tick
\* through the heuristic that finds a person while these are null yields none
\* and leaves the stillness timer null.
NoPersonResetsTracking ==
    [][HeuristicRan =>
          /\ fallRan'.people.count = 0
                => (/\ trk'.lastCenterY = Null
                    /\ trk'.lastAspect = Null
                    /\ trk'.lastTs = Null
                    /\ trk'.postDropStillStart = Null
                    /\ ai'[FallTile].fall = "none")
          /\ (/\ fallRan'.people.count > 0
              /\ trk.lastCenterY = Null /\ trk.lastAspect = Null
              /\ trk.lastTs = Null /\ trk.postDropStillStart = Null)
                => (/\ ai'[FallTile].fall = "none"
                    /\ trk'.postDropStillStart = Null)]_vars

\* the person left the frame after a drop: the tick found nobody, with the
\* motion of the drop still in the average
PersonGoneAfterDrop ==
    /\ fallRan.ran = "tick"
    /\ fallRan.ready
    /\ fallRan.people.count = 0
    /\ trk.health = "ok"
    /\ trk.lastCenterY = Null
    /\ trk.postDropStillStart = Null
    /\ trk.emaMotion > 50000
    /\ ai[FallTile] = Reading(TRUE, "none", <<>>)

\* C30: a tick of a run that is not stopped which went on to getCocoModel and
\* came back to its setTimeout called setAi.
EveryTickDelivers ==
    [][\A a \in AttIds :
          (att[a].pc \in {"model", "infer"} /\ ~att[a].stopped /\ att'[a].pc = "timer")
             => setAiCalls' # setAiCalls]_vars

\* C39: a watchdog tick on a paused or ended video leaves the health, the last
\* position and the time of the last progress as they are and reports
\* nothing; the time of the last progress changes in no step but a watchdog
\* tick on a playing video that finds another position, so time spent paused
\* counts; and a watchdog tick on a video that is neither paused nor ended, at
\* the position seen last, frozenSeconds or more after the last progress,
\* leaves the health frozen.
PausedTimeCounts ==
    [][/\ (ran' = <<"frozenTick">> /\ (video.paused \/ video.ended))
             => (/\ UNCHANGED <<health, onHealthLast, lastTime, lastProgressAt>>
                 /\ ~onHealthCalled')
       /\ lastProgressAt' # lastProgressAt
             => (/\ ran' = <<"frozenTick">>
                 /\ ~video.paused /\ ~video.ended
                 /\ video.currentTime # lastTime
                 /\ lastProgressAt' = now)
       /\ (/\ ran' = <<"frozenTick">>
           /\ ~disposed /\ ~video.paused /\ ~video.ended
           /\ video.currentTime = lastTime
           /\ now - lastProgressAt >= frozenSeconds * 1000)
             => health'.state = "frozen"]_vars

\* the watchdog ticked on a paused video, frozenSeconds after the last
\* progress, and left the health ok
PausedBeyondThreshold ==
    /\ ran = <<"frozenTick">>
    /\ video.paused /\ ~video.ended
    /\ ~disposed /\ listening
    /\ video.currentTime = lastTime
    /\ now - lastProgressAt >= frozenSeconds * 1000
    /\ health.state = "ok"

\* C40: the dark streak changes in no step but a tick of the pixel sampler
\* that reads a frame (health ok), so it is kept when black is reported and
\* when an event changes the health; and a dark sample read when the streak
\* has reached blackConsecutive already moves the health to black.
StreakSurvivesBlack ==
    [][/\ blackStreak' # blackStreak
             => (/\ ran'[1] = "pixelTick"
                 /\ ~ran'[3]
                 /\ health.state = "ok")
       /\ (health'.state = "black" /\ health.state # "black")
             => blackStreak' >= blackConsecutive
       /\ (/\ ran'[1] = "pixelTick"
           /\ ~ran'[3]
           /\ ~disposed /\ enablePixelProbe /\ ~pixelDisabled /\ ctx
           /\ health.state = "ok"
           /\ blackStreak >= blackConsecutive
           /\ ran'[2] * 100 >= blackRatioPercent * PixelTotal)
             => (health'.state = "black" /\ onHealthCalled')]_vars

\* black was reported a second time, by the first dark sample after an event
\* had brought the health back to ok
BlackAgainAfterOneSample ==
    /\ ran[1] = "pixelTick"
    /\ onHealthCalled
    /\ health.state = "black"
    /\ blackStreak = blackConsecutive + 1

\* C32: a sample whose pixel read throws calls onChange once, with peopleBand
\* unknown, motion 0 and pixelsOk false, and disarms the interval; once the
\* interval is disarmed no step samples, calls onChange or arms it again.
SceneFailureReportedOnce ==
    [][/\ (sceneRan'.ran = "tick" /\ sceneRan'.ready /\ sceneRan'.throws)
             => (/\ sceneRan'.calls = 1
                 /\ onChangeLast' = [peopleBand |-> "unknown", motion |-> 0, pixelsOk |-> FALSE]
                 /\ ~pixelsOk'
                 /\ ~timer')
       /\ ~timer
             => (/\ ~timer'
                 /\ sceneRan'.ran # "tick"
                 /\ sceneRan'.calls = 0
                 /\ UNCHANGED <<last, pixelsOk, onChangeLast>>)]_vars

\* a pixel read threw after samples that went well, and a sample period has
\* gone by since
SceneStoppedAfterFailure ==
    /\ ~pixelsOk
    /\ ~timer
    /\ last # NoFrame
    /\ onChangeLast = [peopleBand |-> "unknown", motion |-> 0, pixelsOk |-> FALSE]
    /\ sceneRan.ran = "none"

\* the cells of the grid with more changed pixels than the cell threshold
\* between two frames
ActiveCells(a, b) ==
    Cardinality({i \in GridCells : CellDiff(a, b, i).changed > cellThreshold})

\* C33: the first sample reports unknown with motion 0 and pixelsOk true; a
\* later sample of a frame equal to the one before reports none with motion
\* 0; and a later sample with 7 or more active cells reports crowd.
SceneBands ==
    [][(sceneRan'.ran = "tick" /\ sceneRan'.ready /\ ~sceneRan'.throws) =>
          /\ sceneRan'.calls = 1
          /\ last = NoFrame
                => onChangeLast' = [peopleBand |-> "unknown", motion |-> 0, pixelsOk |-> TRUE]
          /\ (last # NoFrame /\ sceneRan'.gray = last)
                => onChangeLast' = [peopleBand |-> "none", motion |-> 0, pixelsOk |-> TRUE]
          /\ (last # NoFrame /\ ActiveCells(last, sceneRan'.gray) >= 7)
                => (onChangeLast'.peopleBand = "crowd" /\ onChangeLast'.pixelsOk)]_vars

\* a sample with exactly 7 active cells of 6 changed pixels each reported crowd
SevenCellsCrowd ==
    /\ sceneRan.ran = "tick"
    /\ sceneRan.gray = Frame(7, 6, 255)
    /\ last = Frame(7, 6, 255)
    /\ onChangeLast.peopleBand = "crowd"
    /\ onChangeLast.motion = 42 * 255

\* C31: when the ai states delivered to a tile have shown a person without
\* motion for 30 seconds, the incident list holds an incident of type
\* INACTIVITY with severity watch for the camera of the tile.
StillnessRaisesAlert ==
    (still.since # Null /\ still.seen - still.since >= cooldownRiskMs)
       => \E i \in DOMAIN incidents :
             /\ incidents[i].cameraId = EmitTile
             /\ incidents[i].type = "INACTIVITY"
             /\ incidents[i].severity = "watch"

\* the fields of an incident a report for its key may change
ReportedFields == {"severity", "confidence", "reasons", "eventTimeSec", "acked", "createdAt"}

\* C36: a report for a key that is listed leaves the list as long as it was
\* and the incident of the key at its place, with the fields it had, each
\* field but severity, confidence, reasons, eventTimeSec, acked and createdAt
\* (so id, cameraId, cameraName, type, frames and hr) with the value it had.
RetriggerKeepsIdentity ==
    [][lastCall'.op = "onAutoIncident" =>
          LET p == lastCall'.payload
              i == FindIndex(incidents, p.camera, p.type)
          IN i > 0 =>
                /\ Len(incidents') = Len(incidents)
                /\ DOMAIN incidents'[i] = DOMAIN incidents[i]
                /\ \A f \in DOMAIN incidents[i] \ ReportedFields :
                      incidents'[i][f] = incidents[i][f]]_vars

\* the older of two incidents, behind the newer one, got a report later than
\* its creation and is where and what it was: second in the list, with the id,
\* frames and heart-rate series of its creation
SecondInListRetriggered ==
    /\ Len(incidents) = 2
    /\ lastCall.op = "onAutoIncident"
    /\ incidents[2].cameraId = lastCall.payload.camera
    /\ incidents[2].type = lastCall.payload.type
    /\ incidents[2].id = 1
    /\ incidents[2].hr = 1
    /\ incidents[2].frames = <<lastCall.payload.type, lastCall.payload.camera>>
    /\ incidents[2].createdAt = now
    /\ now > 0
    /\ incidents[1].id = 2

WithoutId(list, id) == SelectSeq(list, LAMBDA p : p.id # id)

CriticalOnlyAfterStillSamples ==
    (fallRan.ran = "tick" /\ lastCriticalAt = now /\ ai[FallTile].fall = "critical")
       => ~fallHist.moved

\* C35: a tick that delivers a critical reading follows a risk reading of the
\* same run of the detector effect with no critical reading and no tick that
\* detected no person in between; the critical reading carries the reason still
\* and neither drop nor posture_flip, and the tick leaves no stillness timer
\* running: a further critical needs a further risk.
CriticalFollowsRisk ==
    [][lastCriticalAt' # lastCriticalAt =>
          /\ fallHist.risk
          /\ ~fallHist'.risk
          /\ ai'[FallTile].fall = "critical"
          /\ Len(ai'[FallTile].reasons) = 1
          /\ ai'[FallTile].reasons[1][1] = "still"
          /\ trk'.postDropStillStart = Null]_vars

\* a critical reading was delivered two seconds or more after the risk reading
\* before it, over a tick in between that yielded neither
CriticalTwoTicksAfterRisk ==
    /\ fallRan.ran = "tick"
    /\ lastCriticalAt = now
    /\ ai[FallTile].fall = "critical"
    /\ ai[FallTile].reasons[1] = <<"still", 2>>
    /\ ~fallHist.risk
    /\ trk.postDropStillStart = Null

====
